---- MODULE Spec2Model ----
(***************************************************************************)
(* A model of the JSON parser of src/parser.cpp: the Scanner (text to      *)
(* tokens), the recursive-descent Parser (tokens to a JsonValue tree), the *)
(* free function parse and the printer print_json.                         *)
(*                                                                         *)
(* Characters are their ASCII codes, so that isdigit, isalpha and the      *)
(* ordering of std::map<string, ...> keys are computed as the code does.   *)
(* Cursors (Scanner::current, Scanner::start, Parser::current) are 0-based *)
(* as in the source; TLA+ sequences are 1-based, hence the "+ 1" at reads. *)
(***************************************************************************)
EXTENDS Integers, Sequences, FiniteSets, TLC

VARIABLES
    str,        \* Scanner::str
    start,      \* Scanner::start
    current,    \* Scanner::current
    line,       \* Scanner::line
    tokens,     \* Scanner::tokens
    ptokens,    \* Parser::tokens
    pcurrent,   \* Parser::current
    token,      \* the token most recently read by the Parser (its local)
    stack,      \* the Parser's call stack: one frame per open parse_object/parse_array
    value,      \* the JsonValue returned by Parser::parse
    err,        \* what() of the exception thrown, or NoError
    pc,         \* where control is
    stage,      \* 1: parse(input); 2: parse(text printed for the first result)
    out,        \* the text written to cout by print_json
    value1,     \* the first result, kept while its printed text is parsed again
    tokens1     \* the first token vector, kept likewise

svars == <<str, start, current, line, tokens>>
pvars == <<ptokens, pcurrent, token, stack, value>>
hvars == <<stage, out, value1, tokens1>>
vars == <<str, start, current, line, tokens, ptokens, pcurrent, token, stack,
          value, err, pc, stage, out, value1, tokens1>>

----------------------------------------------------------------------------
(* Characters the scanner names (src/parser.cpp, Scanner::scanToken).       *)
LeftCurlyChar == 123
RightCurlyChar == 125
LeftSquareChar == 91
RightSquareChar == 93
CommaChar == 44
ColonChar == 58
NewlineChar == 10
SpaceChar == 32
QuoteChar == 34
MinusChar == 45
PointChar == 46

(* int is 32 bits wide: the digits of INT_MAX and of -INT_MIN, beyond which  *)
(* stoi throws std::out_of_range.                                           *)
IntMaxDigits == <<50, 49, 52, 55, 52, 56, 51, 54, 52, 55>>
IntMinDigits == <<50, 49, 52, 55, 52, 56, 51, 54, 52, 56>>

isdigit(c) == c \in 48..57
isalpha(c) == c \in (65..90) \cup (97..122)

KwTrue == <<116, 114, 117, 101>>
KwFalse == <<102, 97, 108, 115, 101>>
KwNull == <<110, 117, 108, 108>>

NoError == "none"
None == [t |-> "none", v |-> <<>>]

(* The alternatives of Token::value and of JsonValue.                       *)
Monostate == [t |-> "monostate", v |-> <<>>]
StringV(s) == [t |-> "string", v |-> s]
IntV(n) == [t |-> "int", v |-> n]
DoubleV(d) == [t |-> "double", v |-> d]
BoolV(b) == [t |-> "bool", v |-> b]
NullV == [t |-> "nullptr_t", v |-> <<>>]
ObjectV(entries) == [t |-> "JsonObject", v |-> entries]
ArrayV(elems) == [t |-> "JsonArray", v |-> elems]

Token(token_type, v) == [token_type |-> token_type, value |-> v]
EofToken == Token("EOF_TOKEN", Monostate)

----------------------------------------------------------------------------
(* Scanner helpers.                                                         *)

isLast == current >= Len(str)

getCurrValue == IF isLast THEN SpaceChar ELSE str[current + 1]

getNextValue == IF current + 1 >= Len(str) THEN SpaceChar ELSE str[current + 2]

(* std::string::substr(pos, n): at most n characters from pos.              *)
substr(s, pos, n) ==
    SubSeq(s, pos + 1, IF pos + n > Len(s) THEN Len(s) ELSE pos + n)

RECURSIVE DigitsValue(_)
DigitsValue(ds) ==
    IF ds = <<>> THEN 0
    ELSE 10 * DigitsValue(SubSeq(ds, 1, Len(ds) - 1)) + (ds[Len(ds)] - 48)

(* std::string's operator<: lexicographic on the character codes.           *)
RECURSIVE StrLess(_, _)
StrLess(a, b) ==
    IF b = <<>> THEN FALSE
    ELSE IF a = <<>> THEN TRUE
    ELSE IF a[1] # b[1] THEN a[1] < b[1]
    ELSE StrLess(Tail(a), Tail(b))

RECURSIVE StripLeadingZeros(_)
StripLeadingZeros(ds) ==
    IF Len(ds) > 1 /\ ds[1] = 48 THEN StripLeadingZeros(Tail(ds)) ELSE ds

(* Whether a digit run exceeds the digit run lim (both without a sign).     *)
Exceeds(ds, lim) ==
    LET d == StripLeadingZeros(ds)
    IN Len(d) > Len(lim) \/ (Len(d) = Len(lim) /\ StrLess(lim, d))

(* std::stoi of an optional '-' and a digit run: the int, or out_of_range    *)
(* when it does not fit the 32 bits of int.                                 *)
stoi(s) ==
    LET neg == s # <<>> /\ s[1] = MinusChar
        ds == IF neg THEN Tail(s) ELSE s
        out_of_range == Exceeds(ds, IF neg THEN IntMinDigits ELSE IntMaxDigits)
    IN [out_of_range |-> out_of_range,
        n |-> IF out_of_range THEN 0
              ELSE IF neg
                   THEN 0 - 10 * DigitsValue(SubSeq(ds, 1, Len(ds) - 1)) - (ds[Len(ds)] - 48)
                   ELSE DigitsValue(ds)]

RECURSIVE StripZeros(_)
StripZeros(ds) ==
    IF ds # <<>> /\ ds[Len(ds)] = 48
    THEN StripZeros(SubSeq(ds, 1, Len(ds) - 1))
    ELSE ds

RECURSIVE FirstIndexOf(_, _, _)
FirstIndexOf(s, c, i) ==
    IF i > Len(s) THEN 0
    ELSE IF s[i] = c THEN i
    ELSE FirstIndexOf(s, c, i + 1)

(* std::stod of [-]digits.digits: the double, as the decimal number it      *)
(* denotes: sign, integer part, and the fraction digits without trailing    *)
(* zeros (3.0, 3.00 and 3. are one double).  Exact for the literals of at   *)
(* most 15 significant digits, which the bounded inputs are.                *)
stod(s) ==
    LET neg == s # <<>> /\ s[1] = MinusChar
        body == IF neg THEN Tail(s) ELSE s
        dot == FirstIndexOf(body, PointChar, 1)
    IN [neg |-> neg,
        ip |-> DigitsValue(SubSeq(body, 1, dot - 1)),
        frac |-> StripZeros(SubSeq(body, dot + 1, Len(body)))]

----------------------------------------------------------------------------
(* Scanner::scan and the steps of its loops.                                *)

Throw(message) ==
    /\ err' = message
    /\ pc' = "scanError"

(* What one call of scanToken does after c = advanceCurrent(), as the new   *)
(* values of current, line, tokens, and either the helper it enters or the  *)
(* exception it throws.                                                     *)
scanTokenCase(c) ==
    LET cur == current + 1
        same == [current |-> cur, line |-> line, tokens |-> tokens,
                 pc |-> "scan", err |-> NoError]
        push(tt) == [same EXCEPT !.tokens = Append(tokens, Token(tt, StringV(<<c>>)))]
        nextc == IF cur >= Len(str) THEN SpaceChar ELSE str[cur + 1]
    IN CASE c = LeftCurlyChar -> push("LEFT_CURLY")
         [] c = RightCurlyChar -> push("RIGHT_CURLY")
         [] c = LeftSquareChar -> push("LEFT_SQUARE")
         [] c = RightSquareChar -> push("RIGHT_SQUARE")
         [] c = CommaChar -> push("COMMA")
         [] c = ColonChar -> push("COLON")
         [] c = NewlineChar -> [same EXCEPT !.line = line + 1]
         [] c = SpaceChar -> same
         [] c = QuoteChar -> [same EXCEPT !.pc = "addString"]
         [] c = MinusChar ->
                IF isdigit(nextc)
                THEN [same EXCEPT !.current = cur + 1, !.pc = "addNumber"]
                ELSE [same EXCEPT !.pc = "scanError",
                                  !.err = "- must be followed by a number"]
         [] OTHER ->
                IF isdigit(c) THEN [same EXCEPT !.pc = "addNumber"]
                ELSE IF isalpha(c) THEN [same EXCEPT !.pc = "addKeyword"]
                ELSE [same EXCEPT !.pc = "scanError", !.err = "Unexpected token"]

(* One iteration of scan's while loop: start = current; scanToken(), up to  *)
(* the helper loop it enters.                                               *)
scanToken ==
    /\ pc = "scan"
    /\ ~isLast
    /\ LET r == scanTokenCase(str[current + 1]) IN
        /\ start' = current
        /\ current' = r.current
        /\ line' = r.line
        /\ tokens' = r.tokens
        /\ pc' = r.pc
        /\ err' = r.err
    /\ UNCHANGED <<str, pvars, hvars>>

(* The exit of scan's loop: the EOF token is pushed and tokens returned.    *)
scan ==
    /\ pc = "scan"
    /\ isLast
    /\ tokens' = Append(tokens, EofToken)
    /\ pc' = "scanned"
    /\ UNCHANGED <<str, start, current, line, err, pvars, hvars>>

(* addString's loop body without its current++.                             *)
addStringLoopStuck ==
    /\ pc = "addString"
    /\ getCurrValue # QuoteChar /\ ~isLast
    /\ UNCHANGED vars

(* addString: one iteration of its while loop.                              *)
addStringLoop ==
    /\ pc = "addString"
    /\ getCurrValue # QuoteChar /\ ~isLast
    /\ current' = current + 1
    /\ UNCHANGED <<str, start, line, tokens, err, pc, pvars, hvars>>

(* addString after its loop: the unterminated check, then the token.        *)
addString ==
    /\ pc = "addString"
    /\ ~(getCurrValue # QuoteChar /\ ~isLast)
    /\ IF isLast
       THEN /\ Throw("Unterminated string")
            /\ UNCHANGED <<current, tokens>>
       ELSE /\ current' = current + 1
            /\ tokens' = Append(tokens,
                   Token("STRING", StringV(substr(str, start + 1, (current + 1) - start - 2))))
            /\ pc' = "scan"
            /\ UNCHANGED err
    /\ UNCHANGED <<str, start, line, pvars, hvars>>

(* addNumber: one iteration of its first digit loop.                        *)
addNumberLoop ==
    /\ pc = "addNumber"
    /\ isdigit(getCurrValue)
    /\ current' = current + 1
    /\ UNCHANGED <<str, start, line, tokens, err, pc, pvars, hvars>>

(* addNumber after the integer digits: a '.' must be followed by a digit    *)
(* and opens the fraction; otherwise the int token is pushed.               *)
addNumber ==
    /\ pc = "addNumber"
    /\ ~isdigit(getCurrValue)
    /\ IF getCurrValue = PointChar
       THEN IF ~isdigit(getNextValue)
            THEN /\ Throw("Expected digit after . (trying to parse float)")
                 /\ UNCHANGED <<current, tokens>>
            ELSE /\ current' = current + 1
                 /\ pc' = "addFraction"
                 /\ UNCHANGED <<tokens, err>>
       ELSE LET n == stoi(substr(str, start, current - start)) IN
            IF n.out_of_range
            THEN /\ Throw("stoi")
                 /\ UNCHANGED <<current, tokens>>
            ELSE /\ tokens' = Append(tokens, Token("NUMBER", IntV(n.n)))
                 /\ pc' = "scan"
                 /\ UNCHANGED <<current, err>>
    /\ UNCHANGED <<str, start, line, pvars, hvars>>

(* addNumber: one iteration of the digit loop after the '.'.                *)
addFractionLoop ==
    /\ pc = "addFraction"
    /\ isdigit(getCurrValue)
    /\ current' = current + 1
    /\ UNCHANGED <<str, start, line, tokens, err, pc, pvars, hvars>>

(* addNumber after the fraction digits: the double token is pushed.         *)
addFraction ==
    /\ pc = "addFraction"
    /\ ~isdigit(getCurrValue)
    /\ tokens' = Append(tokens,
           Token("NUMBER", DoubleV(stod(substr(str, start, current - start)))))
    /\ pc' = "scan"
    /\ UNCHANGED <<str, start, current, line, err, pvars, hvars>>

(* addKeyword: one iteration of its while loop.                             *)
addKeywordLoop ==
    /\ pc = "addKeyword"
    /\ isalpha(getCurrValue)
    /\ current' = current + 1
    /\ UNCHANGED <<str, start, line, tokens, err, pc, pvars, hvars>>

(* addKeyword after its loop: true, false, null, or an exception.           *)
addKeyword ==
    /\ pc = "addKeyword"
    /\ ~isalpha(getCurrValue)
    /\ LET keyword == substr(str, start, current - start) IN
       IF keyword = KwTrue
       THEN /\ tokens' = Append(tokens, Token("BOOLEAN", BoolV(TRUE)))
            /\ pc' = "scan"
            /\ UNCHANGED err
       ELSE IF keyword = KwFalse
       THEN /\ tokens' = Append(tokens, Token("BOOLEAN", BoolV(FALSE)))
            /\ pc' = "scan"
            /\ UNCHANGED err
       ELSE IF keyword = KwNull
       THEN /\ tokens' = Append(tokens, Token("NULL_VALUE", Monostate))
            /\ pc' = "scan"
            /\ UNCHANGED err
       ELSE /\ Throw("Unexpected token")
            /\ UNCHANGED tokens
    /\ UNCHANGED <<str, start, current, line, pvars, hvars>>

NextScan ==
    \/ scanToken
    \/ scan
    \/ addStringLoop
    \/ addString
    \/ addNumberLoop
    \/ addNumber
    \/ addFractionLoop
    \/ addFraction
    \/ addKeywordLoop
    \/ addKeyword

----------------------------------------------------------------------------
(* The Parser.  Recursion is an explicit stack: a frame per open            *)
(* parse_object (its json_object, and the key being assigned) or            *)
(* parse_array (its json_array).                                            *)

Frame(kind) == [kind |-> kind, acc |-> <<>>, key |-> <<>>]

(* tokens[current]: indexing a vector past its end is undefined; the read   *)
(* then yields whatever lies there, any token.                              *)
PastTheEnd ==
    {EofToken, Token("COMMA", StringV(<<CommaChar>>)),
     Token("RIGHT_CURLY", StringV(<<RightCurlyChar>>)),
     Token("RIGHT_SQUARE", StringV(<<RightSquareChar>>)),
     Token("NUMBER", IntV(0))}

(* The tokens Parser::getCurrValue (and advanceCurrent) may return.         *)
getCurrToken ==
    IF pcurrent < Len(ptokens) THEN {ptokens[pcurrent + 1]} ELSE PastTheEnd

(* std::map::insert in place of the assignment: an existing key keeps its   *)
(* value.                                                                   *)
RECURSIVE MapAssignFirstWins(_, _, _)
MapAssignFirstWins(entries, key, v) ==
    IF entries = <<>> THEN <<[key |-> key, val |-> v]>>
    ELSE IF Head(entries).key = key THEN entries
    ELSE IF StrLess(key, Head(entries).key)
         THEN <<[key |-> key, val |-> v]>> \o entries
    ELSE <<Head(entries)>> \o MapAssignFirstWins(Tail(entries), key, v)

(* json_object[key] = v on a std::map: the entries stay sorted by key; an   *)
(* existing key keeps its place and takes the new value.                    *)
RECURSIVE MapAssign(_, _, _)
MapAssign(entries, key, v) ==
    IF entries = <<>> THEN <<[key |-> key, val |-> v]>>
    ELSE IF Head(entries).key = key
         THEN <<[key |-> key, val |-> v]>> \o Tail(entries)
    ELSE IF StrLess(key, Head(entries).key)
         THEN <<[key |-> key, val |-> v]>> \o entries
    ELSE <<Head(entries)>> \o MapAssign(Tail(entries), key, v)

(* A value v is returned to the caller whose frames are stk: Parser::parse  *)
(* returns it, parse_object assigns it to the pending key, parse_array      *)
(* appends it.  The result is the new stack, pc, value and err.             *)
Return(v, stk) ==
    IF stk = <<>>
    THEN [stack |-> stk, pc |-> "done", value |-> v, err |-> NoError]
    ELSE LET top == stk[Len(stk)] IN
         IF top.kind = "object"
         THEN [stack |-> [stk EXCEPT ![Len(stk)].acc = MapAssign(top.acc, top.key, v)],
               pc |-> "parse_object_comma", value |-> None, err |-> NoError]
         ELSE [stack |-> [stk EXCEPT ![Len(stk)].acc = Append(top.acc, v)],
               pc |-> "parse_array_comma", value |-> None, err |-> NoError]

(* An exception leaves parse; the frames it unwinds are kept to be seen.    *)
Raise(message, stk) ==
    [stack |-> stk, pc |-> "parseError", value |-> None, err |-> message]

parse_from_token(tok, stk) ==
    CASE tok.token_type = "STRING" -> Return(tok.value, stk)
      [] tok.token_type = "NUMBER" -> Return(tok.value, stk)
      [] tok.token_type = "BOOLEAN" -> Return(tok.value, stk)
      [] tok.token_type = "NULL_VALUE" -> Return(NullV, stk)
      [] tok.token_type = "LEFT_CURLY" ->
            [stack |-> Append(stk, Frame("object")), pc |-> "parse_object",
             value |-> None, err |-> NoError]
      [] tok.token_type = "LEFT_SQUARE" ->
            [stack |-> Append(stk, Frame("array")), pc |-> "parse_array",
             value |-> None, err |-> NoError]
      [] OTHER -> Raise("Unexpected token", stk)

Apply(r) ==
    /\ stack' = r.stack
    /\ pc' = r.pc
    /\ value' = r.value
    /\ err' = r.err

(* parse(input) after the scan: Parser parser(tokens).                      *)
parse ==
    /\ pc = "scanned"
    /\ ptokens' = tokens
    /\ pcurrent' = 0
    /\ pc' = "parse"
    /\ UNCHANGED <<svars, token, stack, value, err, hvars>>

(* Parser::parse: advanceCurrent, then parse_from_token.                    *)
Parser_parse ==
    /\ pc = "parse"
    /\ \E tok \in getCurrToken :
        /\ token' = tok
        /\ pcurrent' = pcurrent + 1
        /\ Apply(parse_from_token(tok, stack))
    /\ UNCHANGED <<svars, ptokens, hvars>>

(* parse_object: key_token = advanceCurrent() and the loop test with its    *)
(* two checks.                                                              *)
parse_object ==
    /\ pc = "parse_object"
    /\ \E tok \in getCurrToken :
        /\ token' = tok
        /\ pcurrent' = pcurrent + 1
        /\ Apply(IF tok.token_type = "RIGHT_CURLY"
                 THEN Return(ObjectV(stack[Len(stack)].acc), SubSeq(stack, 1, Len(stack) - 1))
                 ELSE IF tok.token_type = "EOF_TOKEN"
                 THEN Raise("Unterminated JSON object", stack)
                 ELSE IF tok.token_type # "STRING"
                 THEN Raise("JSON object fields must begin with a 'key' i.e. string", stack)
                 ELSE [stack |-> [stack EXCEPT ![Len(stack)].key = tok.value.v],
                       pc |-> "parse_object_colon", value |-> None, err |-> NoError])
    /\ UNCHANGED <<svars, ptokens, hvars>>

(* consume without its comparison: it never throws.                         *)
consume_unchecked(tok, token_type) == FALSE

(* consume(token_type, error): whether it throws.                           *)

consume(tok, token_type) == tok.token_type # token_type

(* parse_object: consume(COLON, ...).                                       *)
parse_object_colon ==
    /\ pc = "parse_object_colon"
    /\ \E tok \in getCurrToken :
        /\ token' = tok
        /\ IF consume(tok, "COLON")
           THEN /\ Apply(Raise("Key: values must be colon separated", stack))
                /\ UNCHANGED pcurrent
           ELSE /\ pcurrent' = pcurrent + 1
                /\ pc' = "parse_object_value"
                /\ UNCHANGED <<stack, value, err>>
    /\ UNCHANGED <<svars, ptokens, hvars>>

(* parse_object: value_token = advanceCurrent(); json_object[key] =         *)
(* parse_from_token(value_token).                                           *)
parse_object_value ==
    /\ pc = "parse_object_value"
    /\ \E tok \in getCurrToken :
        /\ token' = tok
        /\ pcurrent' = pcurrent + 1
        /\ Apply(parse_from_token(tok, stack))
    /\ UNCHANGED <<svars, ptokens, hvars>>

(* consume_until_comma without its throw: any other token is stepped over.  *)
consume_until_comma_lenient(tok, exception) ==
    IF tok.token_type = exception THEN "stay" ELSE "advance"

(* consume_until_comma(exception): "advance" past a comma, "stay" before    *)
(* the exception token, "throw" on anything else.                           *)

consume_until_comma(tok, exception) ==
    IF tok.token_type = "COMMA" THEN "advance"
    ELSE IF tok.token_type # exception THEN "throw"
    ELSE "stay"

(* parse_object: consume_until_comma(RIGHT_CURLY).                          *)
parse_object_comma ==
    /\ pc = "parse_object_comma"
    /\ \E tok \in getCurrToken :
        /\ token' = tok
        /\ LET c == consume_until_comma(tok, "RIGHT_CURLY") IN
           IF c = "throw"
           THEN /\ Apply(Raise("Missing comma unless followed by", stack))
                /\ UNCHANGED pcurrent
           ELSE /\ pcurrent' = IF c = "advance" THEN pcurrent + 1 ELSE pcurrent
                /\ pc' = "parse_object"
                /\ UNCHANGED <<stack, value, err>>
    /\ UNCHANGED <<svars, ptokens, hvars>>

(* parse_array: token = advanceCurrent(), the loop test, the EOF check and  *)
(* json_array.push_back(parse_from_token(token)).                           *)
parse_array ==
    /\ pc = "parse_array"
    /\ \E tok \in getCurrToken :
        /\ token' = tok
        /\ pcurrent' = pcurrent + 1
        /\ Apply(IF tok.token_type = "RIGHT_SQUARE"
                 THEN Return(ArrayV(stack[Len(stack)].acc), SubSeq(stack, 1, Len(stack) - 1))
                 ELSE IF tok.token_type = "EOF_TOKEN"
                 THEN Raise("Unterminated JSON array", stack)
                 ELSE parse_from_token(tok, stack))
    /\ UNCHANGED <<svars, ptokens, hvars>>

(* parse_array: consume_until_comma(RIGHT_SQUARE).                          *)
parse_array_comma ==
    /\ pc = "parse_array_comma"
    /\ \E tok \in getCurrToken :
        /\ token' = tok
        /\ LET c == consume_until_comma(tok, "RIGHT_SQUARE") IN
           IF c = "throw"
           THEN /\ Apply(Raise("Missing comma unless followed by", stack))
                /\ UNCHANGED pcurrent
           ELSE /\ pcurrent' = IF c = "advance" THEN pcurrent + 1 ELSE pcurrent
                /\ pc' = "parse_array"
                /\ UNCHANGED <<stack, value, err>>
    /\ UNCHANGED <<svars, ptokens, hvars>>

NextParser ==
    \/ Parser_parse
    \/ parse_object
    \/ parse_object_colon
    \/ parse_object_value
    \/ parse_object_comma
    \/ parse_array
    \/ parse_array_comma

----------------------------------------------------------------------------
(* Input texts: every concatenation of at most MaxScanPieces pieces.  Among *)
(* the codes: 92 is the backslash, 64 is '@', 48 and 49 are '0' and '1',    *)
(* 97 and 98 are 'a' and 'b', 120 is 'x'.                                   *)

MaxScanPieces == 3

RECURSIVE Concat(_)
Concat(ss) == IF ss = <<>> THEN <<>> ELSE Head(ss) \o Concat(Tail(ss))

SeqsUpTo(S, n) == UNION {[1..k -> S] : k \in 0..n}

ScanPieces ==
    {<<LeftCurlyChar>>, <<QuoteChar>>, <<92>>, <<MinusChar>>, <<PointChar>>,
     <<49>>, <<SpaceChar>>, <<NewlineChar>>, <<64>>, <<97>>, KwTrue, KwNull}

ScanTexts == {Concat(ps) : ps \in SeqsUpTo(ScanPieces, MaxScanPieces)}

(* Scanner(str): the state after construction.                              *)
ScannerInit(text) ==
    /\ str = text
    /\ start = 0
    /\ current = 0
    /\ line = 1
    /\ tokens = <<>>

ParserIdle ==
    /\ ptokens = <<>>
    /\ pcurrent = 0
    /\ token = None
    /\ stack = <<>>
    /\ value = None

HarnessInit ==
    /\ stage = 1
    /\ out = <<>>
    /\ value1 = None
    /\ tokens1 = <<>>

InitScan ==
    /\ \E text \in ScanTexts : ScannerInit(text)
    /\ ParserIdle
    /\ HarnessInit
    /\ err = NoError
    /\ pc = "scan"

SpecScan == InitScan /\ [][NextScan]_vars

(* scan is one sequential loop: each of its steps is eventually taken.      *)
FairScan == InitScan /\ [][NextScan]_vars /\ WF_vars(NextScan)

----------------------------------------------------------------------------
(* Token vectors as Scanner::scan returns them (any tokens, then one EOF):  *)
(* every sequence of at most MaxTokens tokens, and every object of at most  *)
(* MaxPairs key/value pairs, with and without a comma before its '}'.       *)

MaxTokens == 5
MaxPairs == 3

Punct(tt, c) == Token(tt, StringV(<<c>>))
TLeftCurly == Punct("LEFT_CURLY", LeftCurlyChar)
TRightCurly == Punct("RIGHT_CURLY", RightCurlyChar)
TLeftSquare == Punct("LEFT_SQUARE", LeftSquareChar)
TRightSquare == Punct("RIGHT_SQUARE", RightSquareChar)
TComma == Punct("COMMA", CommaChar)
TColon == Punct("COLON", ColonChar)
TString(s) == Token("STRING", StringV(s))
TInt(n) == Token("NUMBER", IntV(n))
TBool(b) == Token("BOOLEAN", BoolV(b))
TNull == Token("NULL_VALUE", Monostate)

TokenAlphabet ==
    {TLeftCurly, TRightCurly, TLeftSquare, TRightSquare, TComma, TColon,
     TString(<<97>>), TInt(1), TNull}

PairKeys == {<<97>>, <<98>>}
PairValues ==
    {<<TInt(1)>>, <<TInt(2)>>, <<TString(<<97>>)>>, <<TBool(TRUE)>>,
     <<TLeftSquare, TInt(1), TRightSquare>>}

RECURSIVE PairTokens(_)
PairTokens(pairs) ==
    IF pairs = <<>> THEN <<>>
    ELSE <<TString(Head(pairs)[1]), TColon>> \o Head(pairs)[2]
         \o (IF Len(pairs) > 1 THEN <<TComma>> ELSE <<>>)
         \o PairTokens(Tail(pairs))

ObjectTokens ==
    {<<TLeftCurly>> \o PairTokens(pairs) \o trailing \o <<TRightCurly>> :
        pairs \in SeqsUpTo(PairKeys \X PairValues, MaxPairs),
        trailing \in {<<>>, <<TComma>>}}

TokenVectors ==
    {ts \o <<EofToken>> : ts \in SeqsUpTo(TokenAlphabet, MaxTokens) \cup ObjectTokens}

(* Parser(tokens): the state after construction.                            *)
InitParser ==
    /\ ScannerInit(<<>>)
    /\ ptokens \in TokenVectors
    /\ pcurrent = 0
    /\ token = None
    /\ stack = <<>>
    /\ value = None
    /\ HarnessInit
    /\ err = NoError
    /\ pc = "parse"

SpecParser == InitParser /\ [][NextParser]_vars

----------------------------------------------------------------------------
(* print_json: the text written to cout.                                    *)

string(n, c) == [i \in 1..n |-> c]

RECURSIVE NatText(_)
NatText(n) == IF n < 10 THEN <<48 + n>> ELSE NatText(n \div 10) \o <<48 + (n % 10)>>

(* cout << int.                                                             *)
IntText(n) == IF n < 0 THEN <<MinusChar>> \o NatText(0 - n) ELSE NatText(n)

(* cout << double: the default format (%g, precision 6) drops trailing      *)
(* zeros and, with them, a '.' that nothing follows.  Exact for the doubles *)
(* of at most 6 significant digits in [0.0001, 1000000), which those of     *)
(* the bounded inputs are.                                                  *)
DoubleText(d) ==
    (IF d.neg THEN <<MinusChar>> ELSE <<>>)
    \o NatText(d.ip)
    \o (IF d.frac = <<>> THEN <<>> ELSE <<PointChar>> \o d.frac)

RECURSIVE print_json(_, _)
RECURSIVE print_json_object(_, _)
RECURSIVE print_json_array(_, _)

print_json_object(entries, indent) ==
    IF entries = <<>> THEN <<>>
    ELSE string(indent + 2, SpaceChar) \o <<QuoteChar>> \o Head(entries).key
         \o <<QuoteChar, ColonChar, SpaceChar>>
         \o print_json(Head(entries).val, indent + 2)
         \o (IF Len(entries) > 1 THEN <<CommaChar>> ELSE <<>>)
         \o <<NewlineChar>>
         \o print_json_object(Tail(entries), indent)

print_json_array(elems, indent) ==
    IF elems = <<>> THEN <<>>
    ELSE print_json(Head(elems), indent + 2)
         \o (IF Len(elems) > 1 THEN <<CommaChar>> ELSE <<>>)
         \o <<NewlineChar>>
         \o print_json_array(Tail(elems), indent)

print_json(v, indent) ==
    CASE v.t = "JsonObject" ->
            string(indent, SpaceChar) \o <<LeftCurlyChar, NewlineChar>>
            \o print_json_object(v.v, indent)
            \o string(indent, SpaceChar) \o <<RightCurlyChar>>
      [] v.t = "JsonArray" ->
            string(indent, SpaceChar) \o <<LeftSquareChar, NewlineChar>>
            \o print_json_array(v.v, indent)
            \o string(indent, SpaceChar) \o <<RightSquareChar>>
      [] v.t = "string" -> <<QuoteChar>> \o v.v \o <<QuoteChar>>
      [] v.t = "int" -> IntText(v.v)
      [] v.t = "double" -> DoubleText(v.v)
      [] v.t = "bool" -> IF v.v THEN KwTrue ELSE KwFalse
      [] v.t = "nullptr_t" -> KwNull

(* print_json(result) on the value parse returned.                          *)
print ==
    /\ pc = "done"
    /\ stage = 1
    /\ out' = print_json(value, 0)
    /\ pc' = "printed"
    /\ UNCHANGED <<svars, pvars, err, stage, value1, tokens1>>

(* parse(out): the printed text is given to a new Scanner; the first        *)
(* result and its tokens are kept to compare with.                          *)
parse_printed ==
    /\ pc = "printed"
    /\ value1' = value
    /\ tokens1' = SubSeq(ptokens, 1, pcurrent)
    /\ str' = out
    /\ start' = 0
    /\ current' = 0
    /\ line' = 1
    /\ tokens' = <<>>
    /\ ptokens' = <<>>
    /\ pcurrent' = 0
    /\ token' = None
    /\ stack' = <<>>
    /\ value' = None
    /\ stage' = 2
    /\ pc' = "scan"
    /\ UNCHANGED <<err, out>>

----------------------------------------------------------------------------
(* parse(input), then print_json of its result and parse of that text, on   *)
(* every concatenation of at most MaxPieces pieces and every object text of *)
(* at most MaxTextPairs key/value pairs.                                    *)

MaxPieces == 3
MaxTextPairs == 2

Pieces ==
    {<<LeftCurlyChar>>, <<RightCurlyChar>>, <<LeftSquareChar>>, <<RightSquareChar>>,
     <<CommaChar>>, <<ColonChar>>, <<QuoteChar>>, <<49>>, <<48>>, <<PointChar>>,
     <<MinusChar>>, <<SpaceChar>>, <<64>>, KwTrue}

TextKeys == {<<97>>, <<98>>}
TextValues ==
    {<<49>>, <<50, PointChar, 53>>, <<QuoteChar, 120, QuoteChar>>, KwNull,
     <<LeftSquareChar, 49, CommaChar>> \o KwFalse \o <<RightSquareChar>>}

RECURSIVE PairText(_)
PairText(pairs) ==
    IF pairs = <<>> THEN <<>>
    ELSE <<QuoteChar>> \o Head(pairs)[1] \o <<QuoteChar, ColonChar>> \o Head(pairs)[2]
         \o (IF Len(pairs) > 1 THEN <<CommaChar>> ELSE <<>>)
         \o PairText(Tail(pairs))

ObjectTexts ==
    {<<LeftCurlyChar>> \o PairText(pairs) \o <<RightCurlyChar>> :
        pairs \in SeqsUpTo(TextKeys \X TextValues, MaxTextPairs)}

Texts == {Concat(ps) : ps \in SeqsUpTo(Pieces, MaxPieces)} \cup ObjectTexts

Init ==
    /\ \E text \in Texts : ScannerInit(text)
    /\ ParserIdle
    /\ HarnessInit
    /\ err = NoError
    /\ pc = "scan"

Next ==
    \/ NextScan
    \/ parse
    \/ NextParser
    \/ print
    \/ parse_printed

Spec == Init /\ [][Next]_vars

----------------------------------------------------------------------------
(* What the claims speak of.                                                *)

Types(toks) == [i \in 1..Len(toks) |-> toks[i].token_type]

(* The tokens the Parser has consumed.                                      *)
Consumed == SubSeq(ptokens, 1, IF pcurrent > Len(ptokens) THEN Len(ptokens) ELSE pcurrent)

Finished == pc \in {"done", "scanError", "parseError"}

(* The lexical rules, as a recogniser of texts: whether s from index i on   *)
(* is a sequence of complete lexemes.                                       *)
RECURSIVE DigitRunEnd(_, _)
DigitRunEnd(s, i) ==
    IF i <= Len(s) /\ isdigit(s[i]) THEN DigitRunEnd(s, i + 1) ELSE i

RECURSIVE AlphaRunEnd(_, _)
AlphaRunEnd(s, i) ==
    IF i <= Len(s) /\ isalpha(s[i]) THEN AlphaRunEnd(s, i + 1) ELSE i

RECURSIVE LexClean(_, _)
RECURSIVE NumberClean(_, _, _)

NumberClean(s, from, i) ==
    LET k == DigitRunEnd(s, i) IN
    IF k <= Len(s) /\ s[k] = PointChar
    THEN k < Len(s) /\ isdigit(s[k + 1]) /\ LexClean(s, DigitRunEnd(s, k + 1))
    ELSE ~stoi(SubSeq(s, from, k - 1)).out_of_range /\ LexClean(s, k)

LexClean(s, i) ==
    IF i > Len(s) THEN TRUE
    ELSE LET c == s[i] IN
         IF c \in {LeftCurlyChar, RightCurlyChar, LeftSquareChar, RightSquareChar,
                   CommaChar, ColonChar, SpaceChar, NewlineChar}
         THEN LexClean(s, i + 1)
         ELSE IF c = QuoteChar
         THEN LET j == FirstIndexOf(s, QuoteChar, i + 1) IN j # 0 /\ LexClean(s, j + 1)
         ELSE IF c = MinusChar
         THEN i < Len(s) /\ isdigit(s[i + 1]) /\ NumberClean(s, i, i + 1)
         ELSE IF isdigit(c) THEN NumberClean(s, i, i)
         ELSE IF isalpha(c)
         THEN LET k == AlphaRunEnd(s, i) IN
              SubSeq(s, i, k - 1) \in {KwTrue, KwFalse, KwNull} /\ LexClean(s, k)
         ELSE FALSE

(* The grammar the Parser accepts, as a recogniser of token types: the mode *)
(* after a prefix, the open containers, and, once a token is not allowed    *)
(* (mode "bad"), the error for it.                                          *)
Leaves == {"STRING", "NUMBER", "BOOLEAN", "NULL_VALUE"}

Bad(g, message) == [g EXCEPT !.mode = "bad", !.msg = message]

AfterValue(g, open) ==
    [g EXCEPT !.open = open,
              !.mode = IF open = <<>> THEN "end"
                       ELSE IF open[Len(open)] = "object" THEN "objectComma"
                       ELSE "arrayComma"]

Closed(g) == AfterValue(g, SubSeq(g.open, 1, Len(g.open) - 1))

ValueStep(g, tt) ==
    IF tt \in Leaves THEN AfterValue(g, g.open)
    ELSE IF tt = "LEFT_CURLY"
    THEN [g EXCEPT !.open = Append(g.open, "object"), !.mode = "key"]
    ELSE IF tt = "LEFT_SQUARE"
    THEN [g EXCEPT !.open = Append(g.open, "array"), !.mode = "element"]
    ELSE Bad(g, "Unexpected token")

GrammarStep(g, tt) ==
    CASE g.mode \in {"bad", "end"} -> g
      [] g.mode \in {"value", "objectValue"} -> ValueStep(g, tt)
      [] g.mode = "key" ->
            IF tt = "RIGHT_CURLY" THEN Closed(g)
            ELSE IF tt = "EOF_TOKEN" THEN Bad(g, "Unterminated JSON object")
            ELSE IF tt = "STRING" THEN [g EXCEPT !.mode = "colon"]
            ELSE Bad(g, "JSON object fields must begin with a 'key' i.e. string")
      [] g.mode = "colon" ->
            IF tt = "COLON" THEN [g EXCEPT !.mode = "objectValue"]
            ELSE Bad(g, "Key: values must be colon separated")
      [] g.mode = "objectComma" ->
            IF tt = "COMMA" THEN [g EXCEPT !.mode = "key"]
            ELSE IF tt = "RIGHT_CURLY" THEN Closed(g)
            ELSE Bad(g, "Missing comma unless followed by")
      [] g.mode = "element" ->
            IF tt = "RIGHT_SQUARE" THEN Closed(g)
            ELSE IF tt = "EOF_TOKEN" THEN Bad(g, "Unterminated JSON array")
            ELSE ValueStep(g, tt)
      [] g.mode = "arrayComma" ->
            IF tt = "COMMA" THEN [g EXCEPT !.mode = "element"]
            ELSE IF tt = "RIGHT_SQUARE" THEN Closed(g)
            ELSE Bad(g, "Missing comma unless followed by")

RECURSIVE Grammar(_)
Grammar(tts) ==
    IF tts = <<>> THEN [mode |-> "value", open |-> <<>>, msg |-> NoError]
    ELSE GrammarStep(Grammar(SubSeq(tts, 1, Len(tts) - 1)), tts[Len(tts)])

(* The keys of a token sequence, in order: the strings a colon follows.     *)
RECURSIVE KeysOf(_)
KeysOf(toks) ==
    IF Len(toks) < 2 THEN <<>>
    ELSE (IF toks[1].token_type = "STRING" /\ toks[2].token_type = "COLON"
          THEN <<toks[1].value.v>> ELSE <<>>)
         \o KeysOf(Tail(toks))

Distinct(seq) == \A i, j \in 1..Len(seq) : seq[i] = seq[j] => i = j

(* The tokens of one object with distinct keys and no object inside it.     *)
FlatObject(toks) ==
    /\ toks # <<>>
    /\ toks[1].token_type = "LEFT_CURLY"
    /\ \A i \in 2..Len(toks) : toks[i].token_type # "LEFT_CURLY"
    /\ Distinct(KeysOf(toks))

HeldKeys(v) == [i \in 1..Len(v.v) |-> v.v[i].key]

----------------------------------------------------------------------------
(* What Scanner::scan returns: a non-empty token vector whose last token,   *)
(* and no other, is the EOF token.                                          *)
ScanReturnsEofTerminated ==
    pc = "scanned" =>
        /\ tokens # <<>>
        /\ \A i \in 1..Len(tokens) :
            (tokens[i].token_type = "EOF_TOKEN") <=> (i = Len(tokens))

(* C1: a trailing comma is rejected: once the parser has consumed a ','     *)
(* directly followed by ']' or '}', parse has failed with an error and      *)
(* never returns a value.                                                   *)
C1_TrailingCommaRejected ==
    (\E i \in 1..(Len(Consumed) - 1) :
        /\ Consumed[i].token_type = "COMMA"
        /\ Consumed[i + 1].token_type \in {"RIGHT_SQUARE", "RIGHT_CURLY"})
    => (pc = "parseError" /\ value = None)

(* C2: object entries keep insertion order: an object text with distinct    *)
(* keys is held with its entries in the order of the keys in the input,     *)
(* and the printed text lists them in that same order.                      *)
C2_InsertionOrder ==
    /\ (stage = 1 /\ pc = "done" /\ FlatObject(Consumed))
        => HeldKeys(value) = KeysOf(Consumed)
    /\ (stage = 2 /\ pc = "scanned" /\ FlatObject(tokens1))
        => KeysOf(tokens) = KeysOf(tokens1)

(* C3: round trip: parsing the text printed for a value parse returned      *)
(* succeeds and yields an equal tree, every leaf keeping its variant.       *)
C3_RoundTrip ==
    (stage = 2 /\ Finished) => (pc = "done" /\ value = value1)

(* C4, as claimed: a failed parse reports the left-most problem, lexical or *)
(* syntactic: when the scanner throws, it is not in place of the error of   *)
(* a grammar violation among the tokens before the lexical problem.         *)
C4_LeftmostProblemReported ==
    pc = "scanError" =>
        LET g == Grammar(Types(tokens)) IN g.mode = "bad" => err = g.msg

(* The index in ptokens of the token an exception of the Parser is about:   *)
(* consume and consume_until_comma throw before they advance.               *)
Offending ==
    IF err \in {"Key: values must be colon separated", "Missing comma unless followed by"}
    THEN pcurrent + 1
    ELSE pcurrent

(* C4, amended: a failed parse raises one error and returns no value; if    *)
(* the text has a lexical problem the error is the scanner's, for the       *)
(* left-most lexical problem, whatever the tokens before it are, and the    *)
(* parser has not run; otherwise it is the parser's error for the           *)
(* left-most token that the tokens before it do not allow.                  *)
C4_FirstErrorPerStage ==
    /\ pc = "scanError" =>
        /\ err # NoError /\ value = None
        /\ ptokens = <<>> /\ pcurrent = 0 /\ stack = <<>>
        /\ LexClean(SubSeq(str, 1, start), 1)
        /\ ~LexClean(str, 1)
    /\ pc = "parseError" =>
        /\ err # NoError /\ value = None
        /\ LexClean(str, 1)
        /\ ptokens = tokens
        /\ Offending \in 1..Len(ptokens)
        /\ ptokens[Offending] = token
        /\ Grammar(Types(SubSeq(ptokens, 1, Offending - 1))).mode # "bad"
        /\ Grammar(Types(SubSeq(ptokens, 1, Offending))).mode = "bad"
        /\ Grammar(Types(SubSeq(ptokens, 1, Offending))).msg = err

C4_Witness ==
    /\ pc = "scanError"
    /\ Grammar(Types(tokens)).mode = "bad"
    /\ Grammar(Types(tokens)).msg # err

(* C5: Parser::parse consumes the entire token sequence: when it returns a  *)
(* value, every token before the EOF token has been consumed.               *)
C5_ConsumesAllTokens ==
    pc = "done" => pcurrent = Len(ptokens) - 1

(* C6: a string literal ends at the next unescaped double quote: the        *)
(* STRING token just pushed for a literal opened at start closes at the     *)
(* first later '"' that no backslash precedes, and holds all characters     *)
(* before it.                                                               *)
RECURSIVE FirstUnescapedQuote(_, _)
FirstUnescapedQuote(s, i) ==
    IF i > Len(s) THEN 0
    ELSE IF s[i] = QuoteChar /\ s[i - 1] # 92 THEN i
    ELSE FirstUnescapedQuote(s, i + 1)

C6_StringEndsAtUnescapedQuote ==
    (pc = "scan" /\ current > start /\ str[start + 1] = QuoteChar) =>
        LET close == FirstUnescapedQuote(str, start + 2) IN
        /\ close # 0
        /\ current = close
        /\ tokens[Len(tokens)] = Token("STRING", StringV(SubSeq(str, start + 2, close - 1)))

(* C7: reaching EOF inside an open container yields that container's        *)
(* unterminated error: when the parser fails on the EOF token with an       *)
(* object (array) innermost open, the error is the unterminated-object      *)
(* (unterminated-array) error.                                              *)
C7_EofInContainerIsUnterminated ==
    (pc = "parseError" /\ token = EofToken /\ stack # <<>>) =>
        err = (IF stack[Len(stack)].kind = "object"
               THEN "Unterminated JSON object"
               ELSE "Unterminated JSON array")

(* The indexes of the keys of the outermost object among toks.              *)
RECURSIVE DepthBefore(_, _)
DepthBefore(toks, i) ==
    IF i <= 1 THEN 0
    ELSE DepthBefore(toks, i - 1)
         + (IF toks[i - 1].token_type \in {"LEFT_CURLY", "LEFT_SQUARE"} THEN 1
            ELSE IF toks[i - 1].token_type \in {"RIGHT_CURLY", "RIGHT_SQUARE"} THEN 0 - 1
            ELSE 0)

TopKeyAt(toks) ==
    {i \in 1..(Len(toks) - 2) :
        /\ toks[i].token_type = "STRING"
        /\ toks[i + 1].token_type = "COLON"
        /\ DepthBefore(toks, i) = 1}

(* Whether the value v is what the tokens from index i on denote, as far as *)
(* the first token tells.                                                   *)
Denotes(toks, i, v) ==
    CASE toks[i].token_type \in {"STRING", "NUMBER", "BOOLEAN"} -> v = toks[i].value
      [] toks[i].token_type = "NULL_VALUE" -> v = NullV
      [] toks[i].token_type = "LEFT_CURLY" -> v.t = "JsonObject"
      [] toks[i].token_type = "LEFT_SQUARE" -> v.t = "JsonArray"
      [] OTHER -> FALSE

(* C8: last write wins for duplicate keys: a parsed object has exactly one  *)
(* entry for each key of its text, holding the value of the key's last      *)
(* occurrence.                                                              *)
C8_LastWriteWins ==
    (pc = "done" /\ value.t = "JsonObject") =>
        \A i \in TopKeyAt(Consumed) :
            LET key == Consumed[i].value.v
                last == CHOOSE j \in TopKeyAt(Consumed) :
                            /\ Consumed[j].value.v = key
                            /\ \A k \in TopKeyAt(Consumed) :
                                   Consumed[k].value.v = key => k <= j
            IN /\ Cardinality({n \in 1..Len(value.v) : value.v[n].key = key}) = 1
               /\ \A n \in 1..Len(value.v) :
                    value.v[n].key = key => Denotes(Consumed, last + 2, value.v[n].val)

C8_Witness ==
    /\ pc = "done"
    /\ value.t = "JsonObject"
    /\ \E i, j \in TopKeyAt(Consumed) :
        /\ i < j
        /\ Consumed[i].value.v = Consumed[j].value.v
        /\ Consumed[i + 2] # Consumed[j + 2]

(* C9: Scanner::scan terminates: it eventually returns the tokens or        *)
(* throws, and every scanToken step and every iteration of the loops of     *)
(* addString, addNumber and addKeyword moves the cursor forward, never      *)
(* beyond the end of the input.                                             *)
C9_ScanTerminates ==
    /\ <>(pc \in {"scanned", "scanError"})
    /\ [][((pc = "scan" /\ pc' # "scanned") \/ pc' = pc)
            => (current' > current /\ current' <= Len(str))]_vars

C9_Witness ==
    /\ pc = "scanned"
    /\ current = Len(str)
    /\ \E i \in 1..Len(tokens) :
        /\ tokens[i].token_type = "STRING"
        /\ tokens[i].value.v # <<>>

(* C10: the parser cursor never reads past the end of the token vector:     *)
(* wherever the Parser is about to read tokens[current], current is below   *)
(* tokens.size(); the cursor passes the EOF token only as an exception is   *)
(* thrown for it.                                                           *)
Reading ==
    pc \in {"parse", "parse_object", "parse_object_colon", "parse_object_value",
            "parse_object_comma", "parse_array", "parse_array_comma"}

C10_CursorInBounds ==
    /\ Reading => pcurrent < Len(ptokens)
    /\ pcurrent <= Len(ptokens)
    /\ pcurrent = Len(ptokens) => (pc = "parseError" /\ token = EofToken)

C10_Witness ==
    /\ Reading
    /\ Len(stack) >= 2
    /\ pcurrent = Len(ptokens) - 1

====
